---- MODULE Spec2Model ----
(***************************************************************************)
(* The gRPC bridge of pystarport's Ledger simulator                         *)
(* (src/pystarport/entrypoint.py) and the client helpers of                 *)
(* src/pystarport/ledger_utils.py: the frame codec, the dispatch of a       *)
(* command inside SpeculosGRPCBridge.Exchange, the device calls, and the    *)
(* sender / presser threads of the interactive flows.                       *)
(*                                                                         *)
(* A byte string is a sequence of numbers 0..255.  A text (a hex string of  *)
(* the JSON body) is a sequence of one-character strings.                   *)
(***************************************************************************)
EXTENDS Integers, Sequences, FiniteSets, TLC

\* ------------------------------------------------------------------ bounds
\* Longest run of payload bytes that follows the four header bytes of a command.
MaxExtra == 2
MaxSockets == 2
MaxTokens == 2
MaxArgs == 2
MaxKwargs == 2

\* ------------------------------------------------------- program constants
TAG == 10
TIMEOUT_PASSTHROUGH == 30
TIMEOUT_SIGN_STEP == 10
TIMEOUT_SILENT == 10
TIMEOUT_ADDRESS_SENDER == 45
TIMEOUT_FINAL_SENDER == 60
TIMEOUT_ADDRESS_WAIT == 40
TIMEOUT_FINAL_WAIT == 60
TIMEOUT_LEDGER_APDU == 30
TIMEOUT_AUTOMATION == 120
screen_delays == 5
ethereum_attempts == 8
screens_to_navigate == 11
approval_attempts == 6
INS_GET_ADDRESS == 4
INS_SIGN == 2
P1_CONFIRM == 1
P1_SILENT == 0
P1_FINAL == 2

\* Python's None, kept apart from every byte string.
None == <<-1>>

\* Status words: entrypoint.py writes them as bytes.fromhex("6985") and so on.
SW_OK == <<144, 0>>
SW_USER_REJECTED == <<105, 133>>
SW_TIMEOUT == <<100, 8>>
STATUS_GENERAL_ERROR == <<111, 0>>

\* ------------------------------------------------------------ hex and bytes
HexDigits == <<"0", "1", "2", "3", "4", "5", "6", "7",
               "8", "9", "a", "b", "c", "d", "e", "f">>
HexDigitsUpper == <<"0", "1", "2", "3", "4", "5", "6", "7",
                    "8", "9", "A", "B", "C", "D", "E", "F">>

\* bytes.hex(): two lower-case digits per byte.
Hex(bs) ==
    [i \in 1..(2 * Len(bs)) |->
        IF i % 2 = 1 THEN HexDigits[(bs[(i + 1) \div 2] \div 16) + 1]
        ELSE HexDigits[(bs[i \div 2] % 16) + 1]]

IsHexDigit(c) == \E i \in 1..16 : HexDigits[i] = c \/ HexDigitsUpper[i] = c
HexValue(c) == (CHOOSE i \in 1..16 : HexDigits[i] = c \/ HexDigitsUpper[i] = c) - 1
IsSpace(c) == c \in {" ", "\t", "\n", "\r", "\f"}

\* bytes.fromhex(): white space is skipped before a pair of digits, never inside
\* one; anything else raises ValueError.  Inked is where the text is not white
\* space: bytes.fromhex returns (FromHexOk) when those places pair up, each pair
\* two hex digits side by side.
Inked(s) == SelectSeq([i \in 1..Len(s) |-> i], LAMBDA i : ~IsSpace(s[i]))
FromHexOk(s) ==
    LET at == Inked(s)
    IN  /\ Len(at) % 2 = 0
        /\ \A k \in 1..(Len(at) \div 2) :
               /\ at[2 * k] = at[2 * k - 1] + 1
               /\ IsHexDigit(s[at[2 * k - 1]])
               /\ IsHexDigit(s[at[2 * k]])
FromHex(s) ==
    LET at == Inked(s)
    IN  [k \in 1..(Len(at) \div 2) |->
            16 * HexValue(s[at[2 * k - 1]]) + HexValue(s[at[2 * k]])]

\* response_bytes[-2:]
LastTwo(bs) == IF Len(bs) >= 2 THEN SubSeq(bs, Len(bs) - 1, Len(bs)) ELSE bs

\* The truth value Python gives a result slot: None and b"" are false.
Truthy(x) == x # None /\ x # <<>>

\* ------------------------------------------------------------- frame codec
\* The length loop running while l > 0 and closing with a 00 byte: the same
\* number, one byte longer than it need be.
RECURSIVE LengthBytes_Padded(_)
LengthBytes_Padded(l) ==
    IF l > 0 THEN <<(l % 128) + 128>> \o LengthBytes_Padded(l \div 128)
    ELSE <<0>>

\* ExchangeReply.SerializeToString: the loop that writes a length above 127.
RECURSIVE LengthBytes(_)
LengthBytes(l) ==
    IF l > 127 THEN <<(l % 128) + 128>> \o LengthBytes(l \div 128)
    ELSE <<l % 128>>

SerializeToString(replyBytes) ==
    LET length == Len(replyBytes)
    IN  IF length < 128 THEN <<TAG, length>> \o replyBytes
        ELSE <<TAG>> \o LengthBytes(length) \o replyBytes

\* ExchangeRequest.ParseFromString: the command it stores.
ParseFromString(data) ==
    IF Len(data) > 2 /\ data[1] = TAG
    THEN LET length == data[2]
         IN  IF Len(data) >= 2 + length
             THEN SubSeq(data, 3, 2 + length)
             ELSE SubSeq(data, 3, Len(data))
    ELSE data

\* ------------------------------------------------------------------ inputs
\* Commands: CLA 55 and E0 (the two coin families) and B0 (neither), with the
\* instruction and P1 values the dispatch looks at, cut to every length below
\* four and extended by up to MaxExtra payload bytes.
CLAs == {85, 224, 176}
HeaderTails == {<<4, 1, 0>>, <<4, 0, 0>>, <<2, 2, 0>>, <<2, 0, 0>>, <<1, 0, 0>>}
Headers == {<<c>> \o t : c \in CLAs, t \in HeaderTails}
Prefixes == {SubSeq(h, 1, n) : h \in Headers, n \in 0..3}
\* The payload bytes look like an instruction and a P1 value: 02, 01, 04, ...
PayloadByte(i) == IF i % 3 = 1 THEN 2 ELSE IF i % 3 = 2 THEN 1 ELSE 4
Extended == {h \o [i \in 1..n |-> PayloadByte(i)] : h \in Headers, n \in 1..MaxExtra}
Commands == Headers \cup Prefixes \cup Extended

\* What arrives at the gRPC deserializer: the command framed as a protobuf
\* message, or (an empty message, a foreign client) the bare bytes.
RequestFrames == {SerializeToString(c) : c \in Commands} \cup Commands

\* A 128-byte device answer that ends in 90 00 (its frame needs a two-byte length).
LongAnswer == [i \in 1..128 |-> IF i = 127 THEN 144 ELSE IF i = 128 THEN 0 ELSE i]

\* What one requests.post can come to: an exception of requests, or a response
\* with a status code and a body.  body says what resp.json() holds: not JSON at
\* all, an object without "data", "data": null, "data": <a number>, or
\* "data": <the text in data>.
Outcome(kind, status, body, data) ==
    [kind |-> kind, status |-> status, body |-> body, data |-> data]
Texts == { <<>>, <<" ">>, <<"9">>, <<"9", "0", "0", "0">>, <<"6", "9", "8", "5">>,
           <<"c", "0", "9", "0", "0", "0">>, <<"6", "F", "0", "0">>, Hex(LongAnswer) }
Outcomes ==
    { Outcome("Timeout", 0, "none", <<>>),
      Outcome("ConnectionError", 0, "none", <<>>),
      Outcome("Response", 500, "string", <<"9", "0", "0", "0">>),
      Outcome("Response", 200, "notjson", <<>>),
      Outcome("Response", 200, "nodata", <<>>),
      Outcome("Response", 200, "null", <<>>),
      Outcome("Response", 200, "number", <<>>) }
    \cup { Outcome("Response", 200, "string", t) : t \in Texts }

\* resp.json() raises (the body is not JSON).
JsonRaises(o) == o.body = "notjson"
\* result.get("data", "") is false for Python: absent, null or the empty text.
DataFalsy(o) == o.body \in {"nodata", "null"} \/ (o.body = "string" /\ o.data = <<>>)
\* bytes.fromhex(data) raises: TypeError for a number, ValueError for bad text.
FromHexRaises(o) == o.body = "number" \/ (o.body = "string" /\ ~FromHexOk(o.data))

\* ------------------------------------------------------------------- state
Req == {1, 2}

VARIABLES
    cmd,            \* request.command of each Exchange call
    epc,            \* where the Exchange call (the engine) of a request is
    route,          \* the branch of the dispatch the request took
    raised,         \* whether Exchange let an exception out to gRPC
    reply,          \* ExchangeReply.reply that Exchange returned, or None
    frame,          \* serialize_exchange_reply of that reply
    calls,          \* the requests.post calls of a request, as the device sees them
    answer,         \* the bytes the device answered to the last synchronous call (None: it failed)
    waited,         \* how apdu_complete.wait ended: "signalled" or "expired"
    apdu_result,    \* apdu_result[0] of the interactive flow
    apdu_complete,  \* the threading.Event of the interactive flow
    spc,            \* where the send_apdu thread is
    ppc,            \* where the presser thread is
    pidx,           \* the presser's loop counter (i, attempt)
    btn,            \* the presser's LedgerButton: created, connected, its socket
    sent,           \* the tokens the button endpoint received from this request
    late,           \* how many presses the presser made after apdu_complete was set
    la,             \* a LedgerAPDU.send_apdu call of ledger_utils.py
    codec,          \* a payload taken through SerializeToString and ParseFromString
    lb,             \* a LedgerButton driven by any sequence of calls
    cli,            \* a build_cli_args call of utils.py
    clock           \* the seconds since the interactive flow began, to the last deadline passed

vars == <<cmd, epc, route, raised, reply, frame, calls, answer, waited, apdu_result,
          apdu_complete, spc, ppc, pidx, btn, sent, late, la, codec, lb, cli, clock>>
rpcVars == <<epc, raised, reply, frame>>
threadVars == <<apdu_result, apdu_complete, spc, ppc, pidx, btn, sent, late>>
senderVars == <<apdu_result, apdu_complete, spc>>
presserVars == <<ppc, pidx, btn, sent, late>>
otherVars == <<la, codec, lb, cli, clock>>

NoButton == [created |-> FALSE, connected |-> FALSE, sock |-> "none"]
IdleLedgerAPDU ==
    [pc |-> "idle", apdu_hex |-> <<>>, timeout |-> 0, status |-> "none", result |-> None]
IdleCodec == [pc |-> "idle", payload |-> <<>>, frame |-> <<>>, decoded |-> <<>>]
\* A LedgerButton after __init__ (_client None, connected False), with what the
\* endpoint has seen of it (sockets, tokens) and what its last call did: the
\* call (op), its return value (ret), whether it raised, whether the client was
\* connected before it (was), the sockets it made (opened) and whether its
\* token got through (delivered).
IdleButton ==
    [impl |-> "none", connected |-> FALSE, client |-> "none", sockets |-> 0,
     tokens |-> <<>>, op |-> "none", ret |-> "none", raised |-> FALSE, was |-> FALSE,
     opened |-> 0, delivered |-> FALSE]
IdleCli == [pc |-> "idle", args |-> <<>>, kwargs |-> <<>>, out |-> <<>>, safe_out |-> <<>>]

InitBridge ==
    /\ cmd = [r \in Req |-> <<>>]
    /\ epc = [r \in Req |-> "idle"]
    /\ route = [r \in Req |-> "NONE"]
    /\ raised = [r \in Req |-> FALSE]
    /\ reply = [r \in Req |-> None]
    /\ frame = [r \in Req |-> <<>>]
    /\ calls = [r \in Req |-> <<>>]
    /\ answer = [r \in Req |-> None]
    /\ waited = [r \in Req |-> "none"]
    /\ apdu_result = [r \in Req |-> None]
    /\ apdu_complete = [r \in Req |-> FALSE]
    /\ spc = [r \in Req |-> "none"]
    /\ ppc = [r \in Req |-> "none"]
    /\ pidx = [r \in Req |-> 0]
    /\ btn = [r \in Req |-> NoButton]
    /\ sent = [r \in Req |-> <<>>]
    /\ late = [r \in Req |-> 0]
    /\ clock = 0

Init ==
    /\ InitBridge
    /\ la = IdleLedgerAPDU
    /\ codec = IdleCodec
    /\ lb = IdleButton
    /\ cli = IdleCli

\* ---------------------------------------------------------------- dispatch
\* Exchange, line 255: ins == 0x04 and len(cmd) >= 4 and cmd[2] == 0x01.
IsGetAddress(c) ==
    Len(c) >= 2 /\ c[2] = INS_GET_ADDRESS /\ Len(c) >= 4 /\ c[3] = P1_CONFIRM
\* Exchange, line 262: elif ins == 0x02.
IsSign(c) == Len(c) >= 2 /\ ~IsGetAddress(c) /\ c[2] = INS_SIGN

\* Classify with P1 taken as the last byte but one (cmd[-2]) instead of cmd[2].
Classify_P1FromEnd(c) ==
    IF IsGetAddress(c) THEN "ADDRESS_REQUEST"
    ELSE IF IsSign(c)
         THEN IF Len(c) < 3 THEN "TX_SIGN_INDEX_ERROR"
              ELSE IF c[Len(c) - 1] = P1_FINAL THEN "TX_SIGN_FINAL"
              ELSE "TX_SIGN_STEP"
    ELSE "PASSTHROUGH"

\* The branch a command takes through Exchange and _handle_transaction_signing.
\* No branch looks at CLA.  Line 311 reads cmd[2] before any length check, so a
\* two-byte signing command ends in an IndexError.
Classify(c) ==
    IF IsGetAddress(c) THEN "ADDRESS_REQUEST"
    ELSE IF IsSign(c)
         THEN IF Len(c) < 3 THEN "TX_SIGN_INDEX_ERROR"
              ELSE IF c[3] = P1_FINAL THEN "TX_SIGN_FINAL"
              ELSE "TX_SIGN_STEP"
    ELSE "PASSTHROUGH"

\* What a handler hands back: a reply, or an exception on its way up.
Returned(b) == [raised |-> FALSE, reply |-> b]
Raises == [raised |-> TRUE, reply |-> None]

\* Exchange without its except clause: an exception goes up to gRPC.
ExchangeGuard_NoExcept(res) == res

\* Exchange, lines 240 and 302-304: the try / except Exception around it all.
ExchangeGuard(res) == IF res.raised THEN Returned(SW_USER_REJECTED) ELSE res

\* The direct call returning the status word alone instead of the whole response.
PassthroughBody_StatusOnly(o) ==
    IF o.kind # "Response" THEN Raises
    ELSE IF o.status # 200 THEN Returned(SW_USER_REJECTED)
    ELSE IF JsonRaises(o) THEN Raises
    ELSE IF DataFalsy(o) THEN Returned(SW_USER_REJECTED)
    ELSE IF FromHexRaises(o) THEN Raises
    ELSE Returned(LastTwo(FromHex(o.data)))

\* Exchange, lines 267-300: the direct call, from the response to the reply.
PassthroughBody(o) ==
    IF o.kind # "Response" THEN Raises
    ELSE IF o.status # 200 THEN Returned(SW_USER_REJECTED)
    ELSE IF JsonRaises(o) THEN Raises
    ELSE IF DataFalsy(o) THEN Returned(SW_USER_REJECTED)
    ELSE IF FromHexRaises(o) THEN Raises
    ELSE Returned(FromHex(o.data))

\* _handle_transaction_signing, lines 319-339: its own try / except.
SigningStepBody(o) ==
    IF /\ o.kind = "Response"
       /\ o.status = 200
       /\ ~JsonRaises(o)
       /\ ~DataFalsy(o)
       /\ ~FromHexRaises(o)
    THEN Returned(FromHex(o.data))
    ELSE Returned(SW_USER_REJECTED)

\* The silent test comparing the whole response, not its last two bytes, with 90 00.
SilentSucceeds_WholeReply(o) ==
    /\ o.kind = "Response"
    /\ o.status = 200
    /\ ~JsonRaises(o)
    /\ ~DataFalsy(o)
    /\ ~FromHexRaises(o)
    /\ FromHex(o.data) = SW_OK

\* _handle_address_request, lines 471-486: the silent attempt succeeded.
SilentSucceeds(o) ==
    /\ o.kind = "Response"
    /\ o.status = 200
    /\ ~JsonRaises(o)
    /\ ~DataFalsy(o)
    /\ ~FromHexRaises(o)
    /\ LastTwo(FromHex(o.data)) = SW_OK

\* _handle_address_request.send_apdu, lines 492-514: what it stores.
AddressSendApdu(o) ==
    IF o.kind = "Timeout" THEN SW_TIMEOUT
    ELSE IF o.kind # "Response" THEN SW_USER_REJECTED
    ELSE IF o.status # 200 THEN SW_USER_REJECTED
    ELSE IF JsonRaises(o) THEN SW_USER_REJECTED
    ELSE IF DataFalsy(o) THEN SW_USER_REJECTED
    ELSE IF FromHexRaises(o) THEN SW_USER_REJECTED
    ELSE FromHex(o.data)

\* _handle_final_transaction_approval.send_apdu, lines 347-372: what it stores.
FinalSendApdu(o) ==
    IF o.kind = "Timeout" THEN SW_TIMEOUT
    ELSE IF o.kind # "Response" THEN SW_USER_REJECTED
    ELSE IF o.status # 200 THEN SW_USER_REJECTED
    ELSE IF JsonRaises(o) THEN SW_USER_REJECTED
    ELSE IF DataFalsy(o) THEN SW_USER_REJECTED
    ELSE IF FromHexRaises(o) THEN SW_USER_REJECTED
    ELSE FromHex(o.data)

\* The engine answering a wait that ran out with the timeout word 64 08.
WaitReply_ExpiredIsTimeout(signalled, result) ==
    IF signalled /\ Truthy(result) THEN result
    ELSE IF signalled THEN SW_USER_REJECTED
    ELSE SW_TIMEOUT

\* Lines 561-566 and 456-461: what the engine returns once wait() has ended.
WaitReply(signalled, result) ==
    IF signalled /\ Truthy(result) THEN result ELSE SW_USER_REJECTED

\* LedgerAPDU.send_apdu of ledger_utils.py, lines 70-85.
LedgerSendApduResult(o) ==
    IF /\ o.kind = "Response"
       /\ o.status = 200
       /\ ~JsonRaises(o)
       /\ ~FromHexRaises(o)
    THEN IF DataFalsy(o) THEN SW_USER_REJECTED ELSE FromHex(o.data)
    ELSE SW_USER_REJECTED

\* ---------------------------------------------------------------- the device
\* The device's side of a call, for the call log: the bytes it answered, or None
\* when there was no answer to speak of (an exception, an HTTP error, a body
\* without usable data).
DeviceBytes(o) ==
    IF /\ o.kind = "Response"
       /\ o.status = 200
       /\ o.body = "string"
       /\ o.data # <<>>
       /\ FromHexOk(o.data)
    THEN FromHex(o.data)
    ELSE None
CallStatus(o) ==
    IF o.kind = "Timeout" THEN "timeout"
    ELSE IF DeviceBytes(o) = None THEN "failed"
    ELSE "answered"

\* requests.post(self.api_url, json={"data": ...}, timeout=...) leaves.
Post(r, data, timeout) ==
    calls' = [calls EXCEPT ![r] =
                 Append(@, [data |-> data, timeout |-> timeout, status |-> "pending"])]
\* ... and comes back with outcome o.
Answered(r, o) ==
    calls' = [calls EXCEPT ![r][Len(calls[r])].status = CallStatus(o)]

\* Exchange returns (or raises) and gRPC serializes the reply.
Finish(r, res) ==
    /\ epc' = [epc EXCEPT ![r] = "done"]
    /\ raised' = [raised EXCEPT ![r] = res.raised]
    /\ reply' = [reply EXCEPT ![r] = res.reply]
    /\ frame' = [frame EXCEPT ![r] =
                    IF res.raised THEN <<>> ELSE SerializeToString(res.reply)]

\* The handler starting its threads on an event that is already set.
StartThreads_EventSet(r) ==
    /\ apdu_result' = [apdu_result EXCEPT ![r] = None]
    /\ apdu_complete' = [apdu_complete EXCEPT ![r] = TRUE]
    /\ spc' = [spc EXCEPT ![r] = "start"]
    /\ ppc' = [ppc EXCEPT ![r] = "start"]
    /\ epc' = [epc EXCEPT ![r] = "wait"]

\* Lines 489-490 / 344-345 and 558-559 / 453-454: the result slot, the event,
\* and the two daemon threads.
StartThreads(r) ==
    /\ apdu_result' = [apdu_result EXCEPT ![r] = None]
    /\ apdu_complete' = [apdu_complete EXCEPT ![r] = FALSE]
    /\ spc' = [spc EXCEPT ![r] = "start"]
    /\ ppc' = [ppc EXCEPT ![r] = "start"]
    /\ epc' = [epc EXCEPT ![r] = "wait"]

\* ------------------------------------------------------- the Exchange call
\* gRPC hands Exchange a request: deserialize_exchange_request has parsed it.
ExchangeReceive(r) ==
    /\ epc[r] = "idle"
    /\ \E data \in RequestFrames :
           cmd' = [cmd EXCEPT ![r] = ParseFromString(data)]
    /\ epc' = [epc EXCEPT ![r] = "exchange"]
    /\ UNCHANGED <<route, raised, reply, frame, calls, answer, waited>>
    /\ UNCHANGED <<threadVars, otherVars>>

\* Exchange, lines 266-272: every other command goes straight to Speculos.
ExchangePassthrough(r) ==
    /\ epc[r] = "exchange"
    /\ Classify(cmd[r]) = "PASSTHROUGH"
    /\ route' = [route EXCEPT ![r] = Classify(cmd[r])]
    /\ Post(r, Hex(cmd[r]), TIMEOUT_PASSTHROUGH)
    /\ epc' = [epc EXCEPT ![r] = "passthrough_post"]
    /\ UNCHANGED <<cmd, raised, reply, frame, answer, waited>>
    /\ UNCHANGED <<threadVars, otherVars>>

\* Exchange, lines 273-304: the response of the direct call becomes the reply.
PassthroughReturn(r) ==
    /\ epc[r] = "passthrough_post"
    /\ \E o \in Outcomes :
           /\ Answered(r, o)
           /\ answer' = [answer EXCEPT ![r] = DeviceBytes(o)]
           /\ Finish(r, ExchangeGuard(PassthroughBody(o)))
    /\ UNCHANGED <<cmd, route, waited>>
    /\ UNCHANGED <<threadVars, otherVars>>

\* _handle_transaction_signing, line 311, on a command of two bytes: cmd[2]
\* raises IndexError, which only Exchange's except catches.
HandleTransactionSigningIndexError(r) ==
    /\ epc[r] = "exchange"
    /\ Classify(cmd[r]) = "TX_SIGN_INDEX_ERROR"
    /\ route' = [route EXCEPT ![r] = Classify(cmd[r])]
    /\ Finish(r, ExchangeGuard(Raises))
    /\ UNCHANGED <<cmd, calls, answer, waited>>
    /\ UNCHANGED <<threadVars, otherVars>>

\* _handle_transaction_signing, lines 318-325: a step other than the final one.
HandleTransactionSigningStep(r) ==
    /\ epc[r] = "exchange"
    /\ Classify(cmd[r]) = "TX_SIGN_STEP"
    /\ route' = [route EXCEPT ![r] = Classify(cmd[r])]
    /\ Post(r, Hex(cmd[r]), TIMEOUT_SIGN_STEP)
    /\ epc' = [epc EXCEPT ![r] = "step_post"]
    /\ UNCHANGED <<cmd, raised, reply, frame, answer, waited>>
    /\ UNCHANGED <<threadVars, otherVars>>

\* _handle_transaction_signing, lines 326-339.
SigningStepReturn(r) ==
    /\ epc[r] = "step_post"
    /\ \E o \in Outcomes :
           /\ Answered(r, o)
           /\ answer' = [answer EXCEPT ![r] = DeviceBytes(o)]
           /\ Finish(r, ExchangeGuard(SigningStepBody(o)))
    /\ UNCHANGED <<cmd, route, waited>>
    /\ UNCHANGED <<threadVars, otherVars>>

\* _handle_final_transaction_approval, lines 341-345 and 452-456: the slot, the
\* event, both threads started, then the wait.
HandleFinalTransactionApproval(r) ==
    /\ epc[r] = "exchange"
    /\ Classify(cmd[r]) = "TX_SIGN_FINAL"
    /\ route' = [route EXCEPT ![r] = Classify(cmd[r])]
    /\ StartThreads(r)
    /\ UNCHANGED <<cmd, raised, reply, frame, calls, answer, waited>>
    /\ UNCHANGED <<pidx, btn, sent, late, otherVars>>

\* The silent command made by writing P1 = 00 into the command itself, with no
\* copy: the sender then posts the altered command.
HandleAddressRequest_InPlace(r) ==
    /\ epc[r] = "exchange"
    /\ Classify(cmd[r]) = "ADDRESS_REQUEST"
    /\ route' = [route EXCEPT ![r] = Classify(cmd[r])]
    /\ cmd' = [cmd EXCEPT ![r][3] = P1_SILENT]
    /\ Post(r, Hex(cmd'[r]), TIMEOUT_SILENT)
    /\ epc' = [epc EXCEPT ![r] = "silent_post"]
    /\ UNCHANGED <<raised, reply, frame, answer, waited>>
    /\ UNCHANGED <<threadVars, otherVars>>

\* _handle_address_request, lines 463-477: the clone with P1 = 00 is posted.
HandleAddressRequest(r) ==
    /\ epc[r] = "exchange"
    /\ Classify(cmd[r]) = "ADDRESS_REQUEST"
    /\ route' = [route EXCEPT ![r] = Classify(cmd[r])]
    /\ LET silent_cmd == [cmd[r] EXCEPT ![3] = P1_SILENT]
       IN  Post(r, Hex(silent_cmd), TIMEOUT_SILENT)
    /\ epc' = [epc EXCEPT ![r] = "silent_post"]
    /\ UNCHANGED <<cmd, raised, reply, frame, answer, waited>>
    /\ UNCHANGED <<threadVars, otherVars>>

\* _handle_address_request, lines 478-490 and 558-561: the silent answer is
\* returned, or the interactive flow starts.
SilentReturn(r) ==
    /\ epc[r] = "silent_post"
    /\ \E o \in Outcomes :
           /\ Answered(r, o)
           /\ answer' = [answer EXCEPT ![r] = DeviceBytes(o)]
           /\ IF SilentSucceeds(o)
              THEN /\ Finish(r, ExchangeGuard(Returned(FromHex(o.data))))
                   /\ UNCHANGED threadVars
              ELSE /\ StartThreads(r)
                   /\ UNCHANGED <<raised, reply, frame, pidx, btn, sent, late>>
    /\ UNCHANGED <<cmd, route, waited, otherVars>>

\* apdu_complete.wait(timeout=...) returned True: lines 561-563, 456-458.
EngineWaitSignalled(r) ==
    /\ epc[r] = "wait"
    /\ apdu_complete[r]
    /\ waited' = [waited EXCEPT ![r] = "signalled"]
    /\ Finish(r, ExchangeGuard(Returned(WaitReply(TRUE, apdu_result[r]))))
    /\ UNCHANGED <<cmd, route, calls, answer>>
    /\ UNCHANGED <<threadVars, otherVars>>

\* apdu_complete.wait(timeout=...) ran out: lines 565-566, 460-461.
EngineWaitExpired(r) ==
    /\ epc[r] = "wait"
    /\ ~apdu_complete[r]
    /\ waited' = [waited EXCEPT ![r] = "expired"]
    /\ Finish(r, ExchangeGuard(Returned(WaitReply(FALSE, apdu_result[r]))))
    /\ UNCHANGED <<cmd, route, calls, answer>>
    /\ UNCHANGED <<threadVars, otherVars>>

\* ----------------------------------------------------------------- the sender
SenderTimeout(r) ==
    IF route[r] = "ADDRESS_REQUEST" THEN TIMEOUT_ADDRESS_SENDER ELSE TIMEOUT_FINAL_SENDER

\* send_apdu, lines 494-499 / 350-355: the original command is posted.
SenderPost(r) ==
    /\ spc[r] = "start"
    /\ Post(r, Hex(cmd[r]), SenderTimeout(r))
    /\ spc' = [spc EXCEPT ![r] = "posting"]
    /\ UNCHANGED <<cmd, route, answer, waited, rpcVars>>
    /\ UNCHANGED <<apdu_result, apdu_complete, presserVars, otherVars>>

\* send_apdu, lines 500-514 / 356-372: the call ends and the result is stored.
SenderStore(r) ==
    /\ spc[r] = "posting"
    /\ \E o \in Outcomes :
           /\ Answered(r, o)
           /\ apdu_result' = [apdu_result EXCEPT ![r] =
                  IF route[r] = "ADDRESS_REQUEST"
                  THEN AddressSendApdu(o) ELSE FinalSendApdu(o)]
    /\ spc' = [spc EXCEPT ![r] = "stored"]
    /\ UNCHANGED <<cmd, route, answer, waited, rpcVars>>
    /\ UNCHANGED <<apdu_complete, presserVars, otherVars>>

\* One event for all the calls (kept on the bridge, not in the handler): set()
\* by one request's sender signals every request.
SetEvent_Shared(r) == apdu_complete' = [q \in Req |-> TRUE]

\* apdu_complete.set() on the event the handler made for this call (lines 345
\* and 490: a local of the handler, which the closures of this call share).
SetEvent(r) == apdu_complete' = [apdu_complete EXCEPT ![r] = TRUE]

\* set() at the end of the try block instead of in a finally clause: it is
\* skipped when the call timed out.
SenderSet_NotOnTimeout(r) ==
    /\ spc[r] = "stored"
    /\ IF apdu_result[r] = SW_TIMEOUT THEN UNCHANGED apdu_complete ELSE SetEvent(r)
    /\ spc' = [spc EXCEPT ![r] = "done"]
    /\ UNCHANGED <<cmd, route, calls, answer, waited, rpcVars>>
    /\ UNCHANGED <<apdu_result, presserVars, otherVars>>

\* send_apdu, lines 515-516 / 373-374: finally: apdu_complete.set().
SenderSet(r) ==
    /\ spc[r] = "stored"
    /\ SetEvent(r)
    /\ spc' = [spc EXCEPT ![r] = "done"]
    /\ UNCHANGED <<cmd, route, calls, answer, waited, rpcVars>>
    /\ UNCHANGED <<apdu_result, presserVars, otherVars>>

\* -------------------------------------------------------------- LedgerButton
\* LedgerButton.connect, lines 160-173, on a fresh client: the socket is made,
\* and the connection opens (ok) or raises.
Connect(ok) ==
    IF ok THEN [created |-> TRUE, connected |-> TRUE, sock |-> "open"]
    ELSE [created |-> TRUE, connected |-> FALSE, sock |-> "unconnected"]

\* LedgerButton._send, lines 175-183, on a client whose connect() has returned
\* True (connected is reset by disconnect alone, the presser's last call, so the
\* reconnect of line 176 does not run in a presser): the token reaches the
\* endpoint unless send() raises, which is swallowed.
SendToken(b, tokens, token) ==
    IF b.connected /\ b.sock = "open" THEN Append(tokens, token) ELSE tokens

\* LedgerButton.disconnect, lines 194-201 (close() of a connection the peer has
\* reset does not raise).
Disconnect(b) ==
    IF b.connected /\ b.created
    THEN [created |-> TRUE, connected |-> FALSE, sock |-> "closed"]
    ELSE b

\* One LedgerButton kept on the bridge and handed to every presser: the presses
\* of any request go through the client of request 1.
Press_SharedClient(r, token) ==
    /\ sent' = [sent EXCEPT ![1] = SendToken(btn[1], @, token)]
    /\ late' = [late EXCEPT ![r] = IF apdu_complete[r] THEN @ + 1 ELSE @]

\* press_left / press_right / press_both on the presser's own client; sent[r]
\* is what the endpoint received on the connection of that client.
Press(r, token) ==
    /\ sent' = [sent EXCEPT ![r] = SendToken(btn[r], @, token)]
    /\ late' = [late EXCEPT ![r] = IF apdu_complete[r] THEN @ + 1 ELSE @]

\* The button endpoint drops the connection: every later send() raises.
BreakConnection(r) ==
    /\ btn[r].sock = "open"
    /\ btn' = [btn EXCEPT ![r].sock = "broken"]
    /\ UNCHANGED <<cmd, route, calls, answer, waited, rpcVars>>
    /\ UNCHANGED <<senderVars, ppc, pidx, sent, late, otherVars>>

\* ------------------------------------------- the presser of an address request
\* user_interaction, lines 518-525: sleep, a new LedgerButton, connect().
UserInteractionStart(r) ==
    /\ ppc[r] = "start"
    /\ route[r] = "ADDRESS_REQUEST"
    /\ \E ok \in BOOLEAN :
           /\ btn' = [btn EXCEPT ![r] = Connect(ok)]
           /\ ppc' = [ppc EXCEPT ![r] = IF ok THEN "right1" ELSE "done"]
    /\ UNCHANGED <<cmd, route, calls, answer, waited, rpcVars>>
    /\ UNCHANGED <<senderVars, pidx, sent, late, otherVars>>

\* The presses of the script, lines 526-531, 542-545, 548-551: no check comes
\* before right1, right2, both1, both2 and both3; left follows the check of
\* line 533 and right3 the check of line 547.
UserInteractionToken(at) ==
    CASE at = "right1" -> "Rr"
      [] at = "right2" -> "Rr"
      [] at = "both1" -> "LRlr"
      [] at = "left" -> "Ll"
      [] at = "both2" -> "LRlr"
      [] at = "right3" -> "Rr"
      [] at = "both3" -> "LRlr"
UserInteractionNext(at) ==
    CASE at = "right1" -> "right2"
      [] at = "right2" -> "both1"
      [] at = "both1" -> "check1"
      [] at = "left" -> "both2"
      [] at = "both2" -> "check2"
      [] at = "right3" -> "both3"
      [] at = "both3" -> "disconnect"

UserInteractionPress(r) ==
    /\ route[r] = "ADDRESS_REQUEST"
    /\ ppc[r] \in {"right1", "right2", "both1", "left", "both2", "right3", "both3"}
    /\ Press(r, UserInteractionToken(ppc[r]))
    /\ ppc' = [ppc EXCEPT ![r] = UserInteractionNext(@)]
    /\ UNCHANGED <<cmd, route, calls, answer, waited, rpcVars>>
    /\ UNCHANGED <<senderVars, pidx, btn, otherVars>>

\* Lines 533-542: success on the first attempt ends the script.
FirstAttemptSucceeded(r) ==
    /\ apdu_complete[r]
    /\ Truthy(apdu_result[r])
    /\ LastTwo(apdu_result[r]) = SW_OK

\* user_interaction, lines 533-543: disconnect and return, or press left.
UserInteractionCheck1(r) ==
    /\ route[r] = "ADDRESS_REQUEST"
    /\ ppc[r] = "check1"
    /\ IF FirstAttemptSucceeded(r)
       THEN /\ btn' = [btn EXCEPT ![r] = Disconnect(@)]
            /\ ppc' = [ppc EXCEPT ![r] = "done"]
            /\ UNCHANGED <<sent, late>>
       ELSE /\ ppc' = [ppc EXCEPT ![r] = "left"]
            /\ UNCHANGED <<btn, sent, late>>
    /\ UNCHANGED <<cmd, route, calls, answer, waited, rpcVars>>
    /\ UNCHANGED <<senderVars, pidx, otherVars>>

\* user_interaction, lines 547-553: press right unless the event is set.
UserInteractionCheck2(r) ==
    /\ route[r] = "ADDRESS_REQUEST"
    /\ ppc[r] = "check2"
    /\ IF ~apdu_complete[r]
       THEN /\ ppc' = [ppc EXCEPT ![r] = "right3"]
            /\ UNCHANGED <<btn, sent, late>>
       ELSE /\ btn' = [btn EXCEPT ![r] = Disconnect(@)]
            /\ ppc' = [ppc EXCEPT ![r] = "done"]
            /\ UNCHANGED <<sent, late>>
    /\ UNCHANGED <<cmd, route, calls, answer, waited, rpcVars>>
    /\ UNCHANGED <<senderVars, pidx, otherVars>>

\* user_interaction, lines 553-554.
UserInteractionDisconnect(r) ==
    /\ route[r] = "ADDRESS_REQUEST"
    /\ ppc[r] = "disconnect"
    /\ btn' = [btn EXCEPT ![r] = Disconnect(@)]
    /\ ppc' = [ppc EXCEPT ![r] = "done"]
    /\ UNCHANGED <<cmd, route, calls, answer, waited, rpcVars>>
    /\ UNCHANGED <<senderVars, pidx, sent, late, otherVars>>

\* --------------------------------------------- the presser of a final signing
\* transaction_approval, lines 376-388: sleep, a new LedgerButton, connect().
TransactionApprovalStart(r) ==
    /\ ppc[r] = "start"
    /\ route[r] = "TX_SIGN_FINAL"
    /\ \E ok \in BOOLEAN :
           /\ btn' = [btn EXCEPT ![r] = Connect(ok)]
           /\ ppc' = [ppc EXCEPT ![r] = IF ok THEN "navigate" ELSE "done"]
    /\ pidx' = [pidx EXCEPT ![r] = 0]
    /\ UNCHANGED <<cmd, route, calls, answer, waited, rpcVars>>
    /\ UNCHANGED <<senderVars, sent, late, otherVars>>

\* transaction_approval, lines 405-415: one turn of the navigation loop, or its
\* end: the break, or the loop run out and line 415 deciding what follows.
TransactionApprovalNavigate(r) ==
    /\ route[r] = "TX_SIGN_FINAL"
    /\ ppc[r] = "navigate"
    /\ IF pidx[r] < screens_to_navigate /\ ~apdu_complete[r]
       THEN /\ ppc' = [ppc EXCEPT ![r] = "press_right"]
            /\ UNCHANGED <<pidx, btn, sent, late>>
       ELSE IF apdu_complete[r]
       THEN /\ btn' = [btn EXCEPT ![r] = Disconnect(@)]
            /\ ppc' = [ppc EXCEPT ![r] = "done"]
            /\ UNCHANGED <<pidx, sent, late>>
       ELSE /\ ppc' = [ppc EXCEPT ![r] = "approve"]
            /\ pidx' = [pidx EXCEPT ![r] = 0]
            /\ UNCHANGED <<btn, sent, late>>
    /\ UNCHANGED <<cmd, route, calls, answer, waited, rpcVars>>
    /\ UNCHANGED <<senderVars, otherVars>>

\* transaction_approval, lines 410-412: press_right() after the check.
TransactionApprovalPressRight(r) ==
    /\ route[r] = "TX_SIGN_FINAL"
    /\ ppc[r] = "press_right"
    /\ Press(r, "Rr")
    /\ pidx' = [pidx EXCEPT ![r] = @ + 1]
    /\ ppc' = [ppc EXCEPT ![r] = "navigate"]
    /\ UNCHANGED <<cmd, route, calls, answer, waited, rpcVars>>
    /\ UNCHANGED <<senderVars, btn, otherVars>>

\* transaction_approval, lines 421-425 and 443-447: the check at the head of an
\* approval attempt, or the end of the attempts (the break, or all six made)
\* and the disconnect.
TransactionApprovalAttempt(r) ==
    /\ route[r] = "TX_SIGN_FINAL"
    /\ ppc[r] = "approve"
    /\ IF pidx[r] < approval_attempts /\ ~apdu_complete[r]
       THEN /\ ppc' = [ppc EXCEPT ![r] = "press_both"]
            /\ UNCHANGED <<pidx, btn, sent, late>>
       ELSE /\ btn' = [btn EXCEPT ![r] = Disconnect(@)]
            /\ ppc' = [ppc EXCEPT ![r] = "done"]
            /\ UNCHANGED <<pidx, sent, late>>
    /\ UNCHANGED <<cmd, route, calls, answer, waited, rpcVars>>
    /\ UNCHANGED <<senderVars, otherVars>>

\* press_both() letting the failure of send() out: the script ends in its
\* except clause, without the remaining attempts and without disconnect().
TransactionApprovalPressBoth_Aborts(r) ==
    /\ route[r] = "TX_SIGN_FINAL"
    /\ ppc[r] = "press_both"
    /\ Press(r, "LRlr")
    /\ ppc' = [ppc EXCEPT ![r] = IF btn[r].sock = "open" THEN "correct" ELSE "done"]
    /\ UNCHANGED <<cmd, route, calls, answer, waited, rpcVars>>
    /\ UNCHANGED <<senderVars, pidx, btn, otherVars>>

\* transaction_approval, lines 426-428: press_both() after the check.
TransactionApprovalPressBoth(r) ==
    /\ route[r] = "TX_SIGN_FINAL"
    /\ ppc[r] = "press_both"
    /\ Press(r, "LRlr")
    /\ ppc' = [ppc EXCEPT ![r] = "correct"]
    /\ UNCHANGED <<cmd, route, calls, answer, waited, rpcVars>>
    /\ UNCHANGED <<senderVars, pidx, btn, otherVars>>

\* transaction_approval, lines 432 and 438: after attempts 2 and 4 (counted from
\* 0) the event is read again, and a press left follows if it is not set.
TransactionApprovalCorrect(r) ==
    /\ route[r] = "TX_SIGN_FINAL"
    /\ ppc[r] = "correct"
    /\ IF pidx[r] \in {2, 4} /\ ~apdu_complete[r]
       THEN /\ ppc' = [ppc EXCEPT ![r] = "press_left"]
            /\ UNCHANGED pidx
       ELSE /\ ppc' = [ppc EXCEPT ![r] = "approve"]
            /\ pidx' = [pidx EXCEPT ![r] = @ + 1]
    /\ UNCHANGED <<cmd, route, calls, answer, waited, rpcVars>>
    /\ UNCHANGED <<senderVars, btn, sent, late, otherVars>>

\* transaction_approval, lines 436-437 and 440-441: press_left().
TransactionApprovalPressLeft(r) ==
    /\ route[r] = "TX_SIGN_FINAL"
    /\ ppc[r] = "press_left"
    /\ Press(r, "Ll")
    /\ pidx' = [pidx EXCEPT ![r] = @ + 1]
    /\ ppc' = [ppc EXCEPT ![r] = "approve"]
    /\ UNCHANGED <<cmd, route, calls, answer, waited, rpcVars>>
    /\ UNCHANGED <<senderVars, btn, otherVars>>

\* ------------------------------------------------------------ specification
Step(r) ==
    \/ ExchangeReceive(r)
    \/ ExchangePassthrough(r)
    \/ PassthroughReturn(r)
    \/ HandleTransactionSigningIndexError(r)
    \/ HandleTransactionSigningStep(r)
    \/ SigningStepReturn(r)
    \/ HandleFinalTransactionApproval(r)
    \/ HandleAddressRequest(r)
    \/ SilentReturn(r)
    \/ EngineWaitSignalled(r)
    \/ EngineWaitExpired(r)
    \/ SenderPost(r)
    \/ SenderStore(r)
    \/ SenderSet(r)
    \/ BreakConnection(r)
    \/ UserInteractionStart(r)
    \/ UserInteractionPress(r)
    \/ UserInteractionCheck1(r)
    \/ UserInteractionCheck2(r)
    \/ UserInteractionDisconnect(r)
    \/ TransactionApprovalStart(r)
    \/ TransactionApprovalNavigate(r)
    \/ TransactionApprovalPressRight(r)
    \/ TransactionApprovalAttempt(r)
    \/ TransactionApprovalPressBoth(r)
    \/ TransactionApprovalCorrect(r)
    \/ TransactionApprovalPressLeft(r)

\* One Exchange call, from the request to the end of its threads.
Next == Step(1)

Spec == Init /\ [][Next]_vars

\* ------------------------------------------------- LedgerAPDU.send_apdu alone
\* LedgerAPDU.send_apdu(apdu_hex) of ledger_utils.py, from the call to its result.
LedgerSendApdu ==
    /\ la.pc = "idle"
    /\ \E c \in Commands, o \in Outcomes :
           la' = [pc |-> "returned", apdu_hex |-> Hex(c), timeout |-> TIMEOUT_LEDGER_APDU,
                  status |-> CallStatus(o), result |-> LedgerSendApduResult(o)]
    /\ UNCHANGED <<cmd, route, calls, answer, waited, rpcVars, threadVars, codec, lb, cli, clock>>

NextLedgerAPDU == LedgerSendApdu

SpecLedgerAPDU == Init /\ [][NextLedgerAPDU]_vars

\* ------------------- ledger_utils.py: send_apdu_with_automation, Ethereum
\* LedgerAPDU.send_apdu_with_automation(apdu_hex, automation_func) with
\* ethereum_transaction_automation on a new LedgerButton as automation_func:
\* lines 88-89, 113-119.
SendApduWithAutomation(r) ==
    /\ epc[r] = "idle"
    /\ \E c \in {<<224, 2, 2, 0>>, <<224, 2, 2, 0, 2>>} : cmd' = [cmd EXCEPT ![r] = c]
    /\ route' = [route EXCEPT ![r] = "ETHEREUM_AUTOMATION"]
    /\ StartThreads(r)
    /\ UNCHANGED <<raised, reply, frame, calls, answer, waited>>
    /\ UNCHANGED <<pidx, btn, sent, late, otherVars>>

\* send_apdu, lines 91-97.
AutomationSenderPost(r) ==
    /\ route[r] = "ETHEREUM_AUTOMATION"
    /\ spc[r] = "start"
    /\ Post(r, Hex(cmd[r]), TIMEOUT_AUTOMATION)
    /\ spc' = [spc EXCEPT ![r] = "posting"]
    /\ UNCHANGED <<cmd, route, answer, waited, rpcVars>>
    /\ UNCHANGED <<apdu_result, apdu_complete, presserVars, otherVars>>

\* send_apdu, lines 99-108: the same result as LedgerAPDU.send_apdu gives.
AutomationSenderStore(r) ==
    /\ route[r] = "ETHEREUM_AUTOMATION"
    /\ spc[r] = "posting"
    /\ \E o \in Outcomes :
           /\ Answered(r, o)
           /\ apdu_result' = [apdu_result EXCEPT ![r] = LedgerSendApduResult(o)]
    /\ spc' = [spc EXCEPT ![r] = "stored"]
    /\ UNCHANGED <<cmd, route, answer, waited, rpcVars>>
    /\ UNCHANGED <<apdu_complete, presserVars, otherVars>>

\* Lines 122-127: wait(timeout=timeout) ends, and the result or 69 85 is returned.
AutomationReturn(r) ==
    /\ route[r] = "ETHEREUM_AUTOMATION"
    /\ epc[r] = "wait"
    /\ waited' = [waited EXCEPT ![r] = IF apdu_complete[r] THEN "signalled" ELSE "expired"]
    /\ reply' = [reply EXCEPT ![r] = WaitReply(apdu_complete[r], apdu_result[r])]
    /\ epc' = [epc EXCEPT ![r] = "done"]
    /\ UNCHANGED <<cmd, route, calls, answer, raised, frame>>
    /\ UNCHANGED <<threadVars, otherVars>>

\* ethereum_transaction_automation, lines 139-143: sleep, connect().
EthereumStart(r) ==
    /\ route[r] = "ETHEREUM_AUTOMATION"
    /\ ppc[r] = "start"
    /\ \E ok \in BOOLEAN :
           /\ btn' = [btn EXCEPT ![r] = Connect(ok)]
           /\ ppc' = [ppc EXCEPT ![r] = IF ok THEN "navigate" ELSE "done"]
    /\ pidx' = [pidx EXCEPT ![r] = 0]
    /\ UNCHANGED <<cmd, route, calls, answer, waited, rpcVars>>
    /\ UNCHANGED <<senderVars, sent, late, otherVars>>

\* Lines 148-155: the head of the navigation loop (is_set, break), or its end
\* and line 155.
EthereumNavigate(r) ==
    /\ route[r] = "ETHEREUM_AUTOMATION"
    /\ ppc[r] = "navigate"
    /\ IF pidx[r] < screen_delays /\ ~apdu_complete[r]
       THEN /\ ppc' = [ppc EXCEPT ![r] = "right"]
            /\ UNCHANGED <<pidx, btn>>
       ELSE IF apdu_complete[r]
       THEN /\ btn' = [btn EXCEPT ![r] = Disconnect(@)]
            /\ ppc' = [ppc EXCEPT ![r] = "done"]
            /\ UNCHANGED pidx
       ELSE /\ ppc' = [ppc EXCEPT ![r] = "attempt"]
            /\ pidx' = [pidx EXCEPT ![r] = 0]
            /\ UNCHANGED btn
    /\ UNCHANGED <<cmd, route, calls, answer, waited, rpcVars>>
    /\ UNCHANGED <<senderVars, sent, late, otherVars>>

\* Lines 156-177: the head of an approval attempt (is_set, break) and the
\* branch the attempt takes, or the end of the loop and disconnect(), line 179.
EthereumAttempt(r) ==
    /\ route[r] = "ETHEREUM_AUTOMATION"
    /\ ppc[r] = "attempt"
    /\ IF pidx[r] < ethereum_attempts /\ ~apdu_complete[r]
       THEN /\ ppc' = [ppc EXCEPT ![r] =
                          IF pidx[r] = 3 THEN "left3"
                          ELSE IF pidx[r] = 4 THEN "right4"
                          ELSE "both"]
            /\ UNCHANGED btn
       ELSE /\ btn' = [btn EXCEPT ![r] = Disconnect(@)]
            /\ ppc' = [ppc EXCEPT ![r] = "done"]
    /\ UNCHANGED <<cmd, route, calls, answer, waited, rpcVars>>
    /\ UNCHANGED <<senderVars, pidx, sent, late, otherVars>>

\* The presses: line 151 (right); lines 161, 168, 173, 176 (both); and, with no
\* is_set between them, lines 164 and 166 (attempt 3: left, right, then both)
\* and line 171 (attempt 4: right, then both).
EthereumToken(at) ==
    CASE at = "right" -> "Rr"
      [] at = "both" -> "LRlr"
      [] at = "left3" -> "Ll"
      [] at = "right3" -> "Rr"
      [] at = "right4" -> "Rr"
EthereumNext(at) ==
    CASE at = "right" -> "navigate"
      [] at = "both" -> "attempt"
      [] at = "left3" -> "right3"
      [] at = "right3" -> "both"
      [] at = "right4" -> "both"
EthereumPress(r) ==
    /\ route[r] = "ETHEREUM_AUTOMATION"
    /\ ppc[r] \in {"right", "both", "left3", "right3", "right4"}
    /\ Press(r, EthereumToken(ppc[r]))
    /\ ppc' = [ppc EXCEPT ![r] = EthereumNext(@)]
    /\ pidx' = [pidx EXCEPT ![r] = IF ppc[r] \in {"right", "both"} THEN @ + 1 ELSE @]
    /\ UNCHANGED <<cmd, route, calls, answer, waited, rpcVars>>
    /\ UNCHANGED <<senderVars, btn, otherVars>>

NextAutomation ==
    \/ SendApduWithAutomation(1)
    \/ AutomationSenderPost(1)
    \/ AutomationSenderStore(1)
    \/ SenderSet(1)
    \/ AutomationReturn(1)
    \/ EthereumStart(1)
    \/ EthereumNavigate(1)
    \/ EthereumAttempt(1)
    \/ EthereumPress(1)

SpecAutomation == Init /\ [][NextAutomation]_vars

\* ------------------------------------------------------- LedgerButton alone
\* The three LedgerButton classes: entrypoint.py, ledger_utils.py and ledger.py.
Implementations == {"entrypoint", "ledger_utils", "ledger"}

\* connect() without its first two lines: a socket is made whatever connected says.
ButtonConnect_NoGuard(b, ok) ==
    IF ok
    THEN [b EXCEPT !.connected = TRUE, !.client = "open", !.sockets = @ + 1,
                   !.ret = "True"]
    ELSE [b EXCEPT !.client = "unconnected", !.sockets = @ + 1, !.ret = "False"]

\* LedgerButton.connect (the same in the three classes): True at once when
\* connected; else a new socket, which connects (ok) or raises into the except.
ButtonConnect(b, ok) ==
    IF b.connected THEN [b EXCEPT !.ret = "True"]
    ELSE IF ok
    THEN [b EXCEPT !.connected = TRUE, !.client = "open", !.sockets = @ + 1,
                   !.ret = "True"]
    ELSE [b EXCEPT !.client = "unconnected", !.sockets = @ + 1, !.ret = "False"]

\* LedgerButton._send: entrypoint.py and ledger_utils.py call connect() when
\* connected is false, ledger.py calls it always; then send(), which raises on
\* a connection the endpoint has dropped.
ButtonSend(b, token, ok) ==
    LET c == IF b.impl = "ledger" \/ ~b.connected THEN ButtonConnect(b, ok) ELSE b
    IN  IF c.ret = "False" /\ ~c.connected THEN [c EXCEPT !.ret = "False"]
        ELSE IF c.client = "open"
        THEN [c EXCEPT !.tokens = Append(@, token), !.ret = "True"]
        ELSE [c EXCEPT !.ret = "False"]

\* press_left / press_right / press_both.  entrypoint.py returns
\* self._send(..) and print(..): print returns None.  ledger_utils.py returns
\* self._send(..); ledger.py returns True or False.
ButtonPress(b, token, ok) ==
    LET s == ButtonSend([b EXCEPT !.ret = "none"], token, ok)
    IN  IF b.impl = "entrypoint" /\ s.ret = "True" THEN [s EXCEPT !.ret = "None"] ELSE s

\* LedgerButton.disconnect (the same in the three classes); returns None.
ButtonDisconnect(b) ==
    IF b.connected /\ b.client # "none"
    THEN [b EXCEPT !.connected = FALSE, !.client = "closed", !.ret = "None"]
    ELSE [b EXCEPT !.ret = "None"]

\* What the last call did, for the record.
Called(b, op, after) ==
    [after EXCEPT !.op = op, !.raised = FALSE, !.was = b.connected,
                  !.opened = after.sockets - b.sockets,
                  !.delivered = Len(after.tokens) > Len(b.tokens)]

InitButton ==
    /\ InitBridge
    /\ la = IdleLedgerAPDU
    /\ codec = IdleCodec
    /\ cli = IdleCli
    /\ \E impl \in Implementations : lb = [IdleButton EXCEPT !.impl = impl]

ButtonUnchanged ==
    UNCHANGED <<cmd, route, calls, answer, waited, rpcVars, threadVars, la, codec, cli, clock>>

LbConnect ==
    /\ lb.sockets < MaxSockets
    /\ \E ok \in BOOLEAN : lb' = Called(lb, "connect", ButtonConnect(lb, ok))
    /\ ButtonUnchanged

LbPress ==
    /\ lb.sockets < MaxSockets
    /\ Len(lb.tokens) < MaxTokens
    /\ \E token \in {"Ll", "Rr", "LRlr"}, ok \in BOOLEAN :
           lb' = Called(lb, token, ButtonPress(lb, token, ok))
    /\ ButtonUnchanged

LbDisconnect ==
    /\ lb' = Called(lb, "disconnect", ButtonDisconnect(lb))
    /\ ButtonUnchanged

\* The button endpoint drops the connection: every later send() raises.
LbBreak ==
    /\ lb.client = "open"
    /\ lb' = [lb EXCEPT !.client = "broken"]
    /\ ButtonUnchanged

NextButton == LbConnect \/ LbPress \/ LbDisconnect \/ LbBreak

SpecButton == InitButton /\ [][NextButton]_vars

\* ---------------------------------------------------------- the codec alone
\* Payloads of the lengths at which the length field grows, with bytes that vary.
PayloadLengths == {0, 1, 2, 126, 127, 128, 129, 255, 256, 300, 16383, 16384, 20000}
PayloadSeeds == {0, 3, 121}
Payload(n, seed) == [i \in 1..n |-> (7 * i + seed) % 256]

InitCodec ==
    /\ InitBridge
    /\ la = IdleLedgerAPDU
    /\ lb = IdleButton
    /\ cli = IdleCli
    /\ \E n \in PayloadLengths, seed \in PayloadSeeds :
           codec = [pc |-> "payload", payload |-> Payload(n, seed),
                    frame |-> <<>>, decoded |-> <<>>]

\* serialize_exchange_reply(ExchangeReply(reply=payload)).
CodecEncode ==
    /\ codec.pc = "payload"
    /\ codec' = [codec EXCEPT !.pc = "framed",
                              !.frame = SerializeToString(codec.payload)]
    /\ UNCHANGED <<cmd, route, calls, answer, waited, rpcVars, threadVars, la, lb, cli, clock>>

\* deserialize_exchange_request(frame).command.
CodecDecode ==
    /\ codec.pc = "framed"
    /\ codec' = [codec EXCEPT !.pc = "decoded",
                              !.decoded = ParseFromString(codec.frame)]
    /\ UNCHANGED <<cmd, route, calls, answer, waited, rpcVars, threadVars, la, lb, cli, clock>>

\* Buffers that are no whole frame: the frame short of its last byte or two,
\* and the frame without its tag.
Buffers(f) ==
    {SubSeq(f, 1, Len(f) - k) : k \in {k \in 1..2 : k <= Len(f)}} \cup {Tail(f)}

\* A buffer other than a frame reaches deserialize_exchange_request.
CodecTruncate ==
    /\ codec.pc = "framed"
    /\ \E b \in Buffers(codec.frame) :
           codec' = [codec EXCEPT !.pc = "buffer", !.frame = b]
    /\ UNCHANGED <<cmd, route, calls, answer, waited, rpcVars, threadVars, la, lb, cli, clock>>

\* deserialize_exchange_request(buffer).command.
CodecDecodeBuffer ==
    /\ codec.pc = "buffer"
    /\ codec' = [codec EXCEPT !.pc = "decoded_buffer",
                              !.decoded = ParseFromString(codec.frame)]
    /\ UNCHANGED <<cmd, route, calls, answer, waited, rpcVars, threadVars, la, lb, cli, clock>>

NextCodec == CodecEncode \/ CodecDecode \/ CodecTruncate \/ CodecDecodeBuffer

SpecCodec == InitCodec /\ [][NextCodec]_vars

\* ------------------------------------------- one final signing, end to end
\* The command E0 02 02 00 against a button endpoint that accepts the connection
\* and every press, and a device that answers 69 85 once the presser is through
\* its script.  The threads are scheduled fairly.
FinalSigningCommand == <<224, 2, 2, 0>>
DeviceRejectsLate(r) ==
    /\ ppc[r] = "done"
    /\ calls'[r][Len(calls'[r])].status = "answered"
    /\ apdu_result'[r] = SW_USER_REJECTED

NextFinalSigning ==
    \/ ExchangeReceive(1) /\ cmd'[1] = FinalSigningCommand
    \/ HandleFinalTransactionApproval(1)
    \/ EngineWaitSignalled(1)
    \/ EngineWaitExpired(1)
    \/ SenderPost(1)
    \/ SenderStore(1) /\ DeviceRejectsLate(1)
    \/ SenderSet(1)
    \/ TransactionApprovalStart(1) /\ btn'[1].connected
    \/ TransactionApprovalNavigate(1)
    \/ TransactionApprovalPressRight(1)
    \/ TransactionApprovalAttempt(1)
    \/ TransactionApprovalPressBoth(1)
    \/ TransactionApprovalCorrect(1)
    \/ TransactionApprovalPressLeft(1)

SpecFinalSigning == Init /\ [][NextFinalSigning]_vars /\ WF_vars(NextFinalSigning)

\* ------------------------------------------------- two Exchange calls at once
\* gRPC runs Exchange on a pool of ten threads: request 1 is a final signing and
\* request 2 an address request whose silent attempt is refused, so that both
\* are in their interactive flows together.  The device answers the two senders
\* with different bytes.
ConcurrentCommand(r) == IF r = 1 THEN FinalSigningCommand ELSE <<85, 4, 1, 0>>
SenderResults(r) ==
    IF r = 1 THEN {<<192, 144, 0>>} ELSE {<<144, 0>>}
DeviceAnswersSender(r) ==
    /\ apdu_result'[r] \in SenderResults(r)
    /\ calls'[r][Len(calls'[r])].status = "answered"

StepConcurrent(r) ==
    \/ ExchangeReceive(r) /\ cmd'[r] = ConcurrentCommand(r)
    \/ HandleFinalTransactionApproval(r)
    \/ HandleAddressRequest(r)
    \/ SilentReturn(r) /\ answer'[r] = SW_USER_REJECTED
    \/ EngineWaitSignalled(r)
    \/ EngineWaitExpired(r)
    \/ SenderPost(r)
    \/ SenderStore(r) /\ DeviceAnswersSender(r)
    \/ SenderSet(r)
    \/ UserInteractionStart(r)
    \/ UserInteractionPress(r)
    \/ UserInteractionCheck1(r)
    \/ UserInteractionCheck2(r)
    \/ UserInteractionDisconnect(r)
    \/ TransactionApprovalStart(r)
    \/ TransactionApprovalNavigate(r)
    \/ TransactionApprovalPressRight(r)
    \/ TransactionApprovalAttempt(r)
    \/ TransactionApprovalPressBoth(r)
    \/ TransactionApprovalCorrect(r)
    \/ TransactionApprovalPressLeft(r)

NextConcurrent == \E r \in Req : StepConcurrent(r)

SpecConcurrent == Init /\ [][NextConcurrent]_vars

\* ------------------------------------------- the interactive flows, with time
\* apdu_complete.wait(timeout=40), line 561, and wait(timeout=60), line 456.
WaitTimeout(r) ==
    IF route[r] = "ADDRESS_REQUEST" THEN TIMEOUT_ADDRESS_WAIT ELSE TIMEOUT_FINAL_WAIT

\* The instants at which a wait or a device call of these flows can run out.
Deadlines ==
    {TIMEOUT_ADDRESS_WAIT, TIMEOUT_ADDRESS_SENDER, TIMEOUT_FINAL_WAIT, TIMEOUT_FINAL_SENDER}

\* Time passes, to the next deadline.  The clock starts when the handler starts
\* its threads and waits; the sender posts at once and sets the event as soon
\* as its result is stored, and time does not pass a deadline that something
\* is waiting for: the engine's wait, or the sender's call.
Tick(r) ==
    /\ epc[r] = "wait" \/ spc[r] = "posting"
    /\ spc[r] \notin {"start", "stored"}
    /\ ~(epc[r] = "wait" /\ clock >= WaitTimeout(r))
    /\ ~(spc[r] = "posting" /\ clock >= SenderTimeout(r))
    /\ \E d \in Deadlines :
           /\ d > clock
           /\ \A e \in Deadlines : e > clock => d <= e
           /\ clock' = d
    /\ UNCHANGED <<cmd, route, calls, answer, waited, rpcVars, threadVars, la, codec, lb, cli>>

\* requests.post(..., timeout=45 / 60) of the sender: the call raises Timeout
\* when its timeout has run out, and ends otherwise before that.
WithinTimeout(r) ==
    calls'[r][Len(calls'[r])].status = "timeout" <=> clock >= SenderTimeout(r)

\* wait(timeout=...) returns False when the timeout has run out.
WaitRunsOut(r) == clock >= WaitTimeout(r)

NextTimed ==
    \/ ExchangeReceive(1) /\ cmd'[1] \in {<<85, 4, 1, 0>>, FinalSigningCommand}
    \/ HandleAddressRequest(1)
    \/ SilentReturn(1)
    \/ HandleFinalTransactionApproval(1)
    \/ EngineWaitSignalled(1)
    \/ EngineWaitExpired(1) /\ WaitRunsOut(1)
    \/ SenderPost(1)
    \/ SenderStore(1) /\ WithinTimeout(1)
    \/ SenderSet(1)
    \/ Tick(1)
    \/ UserInteractionStart(1)
    \/ UserInteractionPress(1)
    \/ UserInteractionCheck1(1)
    \/ UserInteractionCheck2(1)
    \/ UserInteractionDisconnect(1)
    \/ TransactionApprovalStart(1)
    \/ TransactionApprovalNavigate(1)
    \/ TransactionApprovalPressRight(1)
    \/ TransactionApprovalAttempt(1)
    \/ TransactionApprovalPressBoth(1)
    \/ TransactionApprovalCorrect(1)
    \/ TransactionApprovalPressLeft(1)

SpecTimed == Init /\ [][NextTimed]_vars

\* The same with progress: a thread that can take a step takes one in the end
\* (requests.post returns or runs into its timeout, wait() returns, the button
\* socket does not block).
SpecTermination == Init /\ [][NextTimed]_vars /\ WF_vars(NextTimed)

\* --------------------------------------------------- utils.build_cli_args
\* A Python value handed to build_cli_args: None, a str (its characters) or an int.
PyNone == [t |-> "none", s |-> <<>>, n |-> 0]
PyStr(chars) == [t |-> "str", s |-> chars, n |-> 0]
PyInt(n) == [t |-> "int", s |-> <<>>, n |-> n]

\* str(v) / f"{v}".
RECURSIVE Decimal(_)
Decimal(n) ==
    IF n < 10 THEN <<HexDigits[n + 1]>>
    ELSE Decimal(n \div 10) \o <<HexDigits[(n % 10) + 1]>>
PyToStr(v) ==
    IF v.t = "str" THEN v.s
    ELSE IF v.t = "int" THEN Decimal(v.n)
    ELSE <<"N", "o", "n", "e">>
\* "if arg": None, "" and 0 are false.
PyTruthy(v) == ~(v.t = "none" \/ (v.t = "str" /\ v.s = <<>>) \/ (v.t = "int" /\ v.n = 0))

PRESERVE_UNDERSCORE_FLAGS ==
    { <<"o", "r", "d", "e", "r", "_", "b", "y">>,
      <<"l", "o", "g", "_", "f", "o", "r", "m", "a", "t">>,
      <<"l", "o", "g", "_", "l", "e", "v", "e", "l">>,
      <<"l", "o", "g", "_", "n", "o", "_", "c", "o", "l", "o", "r">>,
      <<"v", "e", "r", "b", "o", "s", "e", "_", "l", "o", "g", "_", "l", "e", "v", "e", "l">> }

\* len(f"{s}".split()): the runs of characters that are not white space.
SplitLen(t) ==
    Cardinality({i \in 1..Len(t) : ~IsSpace(t[i]) /\ (i = 1 \/ IsSpace(t[i - 1]))})
safe_cli_string(v) ==
    IF SplitLen(PyToStr(v)) > 1 THEN <<"'">> \o PyToStr(v) \o <<"'">> ELSE PyToStr(v)

\* k.strip("_").replace("_", "-")
StripUnderscores(k) ==
    LET inside == {i \in 1..Len(k) : k[i] # "_"}
    IN  IF inside = {} THEN <<>>
        ELSE SubSeq(k, CHOOSE i \in inside : \A j \in inside : i <= j,
                       CHOOSE i \in inside : \A j \in inside : i >= j)
Dashed(k) == [i \in 1..Len(k) |-> IF k[i] = "_" THEN "-" ELSE k[i]]
Flag(k) ==
    <<"-", "-">> \o (IF k \in PRESERVE_UNDERSCORE_FLAGS THEN k
                      ELSE Dashed(StripUnderscores(k)))

\* The for loop of lines 81-88 over kwargs.items(), in call order.
RECURSIVE FlagsAndValues(_, _)
FlagsAndValues(kwargs, safe) ==
    IF kwargs = <<>> THEN <<>>
    ELSE LET k == Head(kwargs)[1]
             v == Head(kwargs)[2]
         IN  (IF v = PyNone THEN <<>>
              ELSE <<Flag(k), IF safe THEN safe_cli_string(v) ELSE PyToStr(v)>>)
             \o FlagsAndValues(Tail(kwargs), safe)

\* Lines 77-80: the positional arguments that are kept.
Positionals(args, safe) ==
    IF safe
    THEN LET kept == SelectSeq(args, PyTruthy)
         IN  [i \in 1..Len(kept) |-> safe_cli_string(kept[i])]
    ELSE LET kept == SelectSeq(args, LAMBDA a : a # PyNone)
         IN  [i \in 1..Len(kept) |-> PyToStr(kept[i])]

build_cli_args(args, safe, kwargs) == Positionals(args, safe) \o FlagsAndValues(kwargs, safe)
build_cli_args_safe(args, kwargs) == build_cli_args(args, TRUE, kwargs)

\* The inputs: positional arguments and keyword arguments (no keyword twice).
ArgValues == {PyNone, PyStr(<<>>), PyStr(<<"t", "x", "_", "s", "e", "a", "r", "c", "h">>), PyStr(<<"a", " ", "b">>)}
Keywords == {<<"o", "r", "d", "e", "r", "_", "b", "y">>, <<"c", "h", "a", "i", "n", "_", "i", "d">>, <<"f", "r", "o", "m", "_">>}
KwValues == {PyNone, PyStr(<<"d", "e", "s", "c">>), PyStr(<<"1", "2">>), PyInt(12), PyStr(<<"a", " ", "b">>)}
SeqsUpTo(S, n) == UNION {[1..m -> S] : m \in 0..n}
KwargsUpTo(n) ==
    {kw \in SeqsUpTo(Keywords \X KwValues, n) :
        \A i, j \in 1..Len(kw) : i # j => kw[i][1] # kw[j][1]}

InitCli ==
    /\ InitBridge
    /\ la = IdleLedgerAPDU
    /\ codec = IdleCodec
    /\ lb = IdleButton
    /\ \E args \in SeqsUpTo(ArgValues, MaxArgs), kwargs \in KwargsUpTo(MaxKwargs) :
           cli = [pc |-> "called", args |-> args, kwargs |-> kwargs,
                  out |-> <<>>, safe_out |-> <<>>]

CliUnchanged ==
    UNCHANGED <<cmd, route, calls, answer, waited, rpcVars, threadVars, la, codec, lb, clock>>

\* build_cli_args(*args, **kwargs)
BuildCliArgs ==
    /\ cli.pc = "called"
    /\ cli' = [cli EXCEPT !.pc = "plain",
                          !.out = build_cli_args(cli.args, FALSE, cli.kwargs)]
    /\ CliUnchanged

\* build_cli_args_safe(*args, **kwargs), on the same arguments
BuildCliArgsSafe ==
    /\ cli.pc = "plain"
    /\ cli' = [cli EXCEPT !.pc = "both",
                          !.safe_out = build_cli_args_safe(cli.args, cli.kwargs)]
    /\ CliUnchanged

NextCli == BuildCliArgs \/ BuildCliArgsSafe

SpecCli == InitCli /\ [][NextCli]_vars

\* ------------------------------------------------------------------ claims
\* What a well-formed frame is: the tag 0A, a base-128 length (least
\* significant group first, bit 80 on every byte but the last), then exactly
\* that many bytes.
RECURSIVE VarintAt(_, _)
VarintAt(f, i) ==
    IF i > Len(f) THEN [val |-> -1, len |-> 0]
    ELSE IF f[i] < 128 THEN [val |-> f[i], len |-> 1]
    ELSE LET rest == VarintAt(f, i + 1)
         IN  IF rest.val < 0 THEN rest
             ELSE [val |-> (f[i] - 128) + 128 * rest.val, len |-> rest.len + 1]
WellFormedFrame(f) ==
    /\ Len(f) >= 2
    /\ f[1] = 10
    /\ VarintAt(f, 2).val >= 0
    /\ Len(f) = 1 + VarintAt(f, 2).len + VarintAt(f, 2).val
FramePayload(f) == SubSeq(f, 2 + VarintAt(f, 2).len, Len(f))

\* The CLA bytes of the two coin families the spec names (55 .. and E0 ..).
FamilyCLAs == {85, 224}
Dispatched(r) == epc[r] \notin {"idle", "exchange"}
NoAutomation(r) ==
    /\ spc[r] = "none"
    /\ ppc[r] = "none"
    /\ btn[r] = NoButton
    /\ sent[r] = <<>>
    /\ waited[r] = "none"
Take4(c) == SubSeq(c, 1, IF Len(c) < 4 THEN Len(c) ELSE 4)

\* C1: Exchange never lets a failure escape: whatever the command and whatever
\* the device and button endpoints do, a finished Exchange call has returned a
\* reply (it did not raise), and the frame serialized from it is well formed and
\* carries the reply.
C1_ExchangeAlwaysReturnsFrame ==
    \A r \in Req :
        epc[r] = "done" =>
            /\ ~raised[r]
            /\ reply[r] # None
            /\ WellFormedFrame(frame[r])
            /\ FramePayload(frame[r]) = reply[r]
\* An exception was raised inside a handler (IndexError on a two-byte signing
\* command) and Exchange still returned a reply.
C1_Witness ==
    \E r \in Req :
        /\ epc[r] = "done"
        /\ route[r] = "TX_SIGN_INDEX_ERROR"
        /\ reply[r] = SW_USER_REJECTED
        /\ frame[r] = <<10, 2, 105, 133>>

\* C2: frame round trip: for every payload of length 0, 1, 127, 128, 300 and
\* 20000, decoding the frame produced by encoding the payload yields the payload.
C2_RoundTrip ==
    codec.pc = "decoded" /\ Len(codec.payload) \in {0, 1, 127, 128, 300, 20000}
        => codec.decoded = codec.payload

\* C3: failure containment: when every device call of a request failed or timed
\* out (and the engine did not give up waiting), the reply ends in the
\* general-error status word 6F 00 or the timeout status word 64 08.
AllCallsFailed(r) ==
    /\ Len(calls[r]) > 0
    /\ \A i \in 1..Len(calls[r]) : calls[r][i].status \in {"failed", "timeout"}
C3_FailureContainment ==
    \A r \in Req :
        epc[r] = "done" /\ AllCallsFailed(r) /\ waited[r] # "expired" =>
            /\ ~raised[r]
            /\ LastTwo(reply[r]) \in {STATUS_GENERAL_ERROR, SW_TIMEOUT}

\* C4: silent-path short-circuit: when the device answers the silent variant of
\* an address request (P1 forced to 00) with bytes ending in 90 00, Exchange
\* returns exactly those bytes, makes no second device call, and no button
\* client is created, connected or pressed (no thread is started at all).
SilentAnsweredOk(r) ==
    /\ route[r] = "ADDRESS_REQUEST"
    /\ Len(calls[r]) >= 1
    /\ calls[r][1].status = "answered"
    /\ answer[r] # None
    /\ LastTwo(answer[r]) = SW_OK
C4_SilentShortCircuit ==
    \A r \in Req :
        SilentAnsweredOk(r) =>
            /\ epc[r] = "done"
            /\ ~raised[r]
            /\ reply[r] = answer[r]
            /\ Len(calls[r]) = 1
            /\ calls[r][1].data = Hex([cmd[r] EXCEPT ![3] = 0])
            /\ NoAutomation(r)
\* 55 04 01 00 answered on 55 04 00 00 with c0 90 00.
C4_Witness ==
    \E r \in Req :
        /\ cmd[r] = <<85, 4, 1, 0>>
        /\ SilentAnsweredOk(r)
        /\ calls[r][1].data = <<"5", "5", "0", "4", "0", "0", "0", "0">>
        /\ reply[r] = <<192, 144, 0>>

\* C5: in the interactive flows the engine's reply is the sender's result when
\* the sender finished before the engine's wait expired, and 69 85 otherwise.
C5_EngineReturnsSenderResult ==
    \A r \in Req :
        epc[r] = "done" =>
            /\ waited[r] = "signalled" => reply[r] = apdu_result[r]
            /\ waited[r] = "expired" => reply[r] = SW_USER_REJECTED

\* C6: a command shorter than 2 bytes is passed through: one device call that
\* carries the command unchanged, the device's answer returned unchanged, no
\* automation.
C6_ShortCommandPassthrough ==
    \A r \in Req :
        Dispatched(r) /\ Len(cmd[r]) < 2 =>
            /\ route[r] = "PASSTHROUGH"
            /\ Len(calls[r]) = 1
            /\ calls[r][1].data = Hex(cmd[r])
            /\ FromHex(calls[r][1].data) = cmd[r]
            /\ NoAutomation(r)
            /\ epc[r] = "done" /\ answer[r] # None => reply[r] = answer[r]
\* The one-byte command 55 answered with c0 90 00.
C6_Witness ==
    \E r \in Req :
        /\ cmd[r] = <<85>>
        /\ epc[r] = "done"
        /\ calls[r] = <<[data |-> <<"5", "5">>, timeout |-> 30, status |-> "answered"]>>
        /\ reply[r] = <<192, 144, 0>>

\* C7: a command whose CLA belongs to neither coin family is PASSTHROUGH whatever
\* its INS, P1 and payload: a single device call, never any button automation.
\* Stated for the commands that carry CLA, INS and P1, which keeps the
\* IndexError of the two-byte signing commands out of it.
C7_ForeignClaPassthrough ==
    \A r \in Req :
        Dispatched(r) /\ Len(cmd[r]) >= 3 /\ cmd[r][1] \notin FamilyCLAs =>
            /\ route[r] = "PASSTHROUGH"
            /\ Len(calls[r]) = 1
            /\ NoAutomation(r)

\* C8: classification is a function of the leading bytes: a command with INS 02
\* and P1 02 is handled as TX_SIGN_FINAL (both threads started) whatever follows
\* byte 4, and every command that agrees with the request's command on the first
\* four bytes is classified the way the request was routed.
C8_ClassifierDeterminism ==
    \A r \in Req :
        Dispatched(r) =>
            /\ \A c \in Commands : Take4(c) = Take4(cmd[r]) => Classify(c) = route[r]
            /\ Len(cmd[r]) >= 3 /\ cmd[r][2] = 2 /\ cmd[r][3] = 2 =>
                   /\ route[r] = "TX_SIGN_FINAL"
                   /\ spc[r] # "none"
                   /\ ppc[r] # "none"
\* E0 02 02 00 followed by payload bytes, in the sender / presser race.
C8_Witness ==
    \E r \in Req :
        /\ Len(cmd[r]) > 4
        /\ Take4(cmd[r]) = <<224, 2, 2, 0>>
        /\ route[r] = "TX_SIGN_FINAL"
        /\ spc[r] = "posting"
        /\ ppc[r] = "navigate"

\* C9: a signing command whose P1 is not the final-step value makes exactly one
\* device call with the unchanged command, returns the device's answer, and
\* starts no thread, event or button client.
C9_SigningStepOneCall ==
    \A r \in Req :
        /\ epc[r] = "done"
        /\ Len(cmd[r]) >= 2
        /\ cmd[r][1] \in FamilyCLAs
        /\ cmd[r][2] = INS_SIGN
        /\ ~(Len(cmd[r]) >= 3 /\ cmd[r][3] = P1_FINAL)
        => /\ Len(calls[r]) = 1
           /\ calls[r][1].data = Hex(cmd[r])
           /\ answer[r] # None => reply[r] = answer[r]
           /\ NoAutomation(r)

\* C10: a device call that timed out yields the timeout status word 64 08 at
\* every call site: the direct call, the signing step, both senders.
C10_TimeoutStatusWord ==
    \A r \in Req :
        /\ epc[r] = "done" /\ route[r] \in {"PASSTHROUGH", "TX_SIGN_STEP"}
               /\ calls[r][1].status = "timeout"
           => reply[r] = SW_TIMEOUT
        /\ spc[r] \in {"stored", "done"} /\ calls[r][Len(calls[r])].status = "timeout"
           => apdu_result[r] = SW_TIMEOUT

\* How many times a token is among the tokens the button endpoint received.
Count(tokens, token) == Cardinality({i \in 1..Len(tokens) : tokens[i] = token})

\* C11: end-to-end final signing: for the command E0 02 02 00, with a reachable
\* button endpoint and a device that answers 69 85 only after the presser has
\* run through all its approval attempts, Exchange returns a frame whose
\* payload ends in 69 85, and the button endpoint has received at least one
\* press-both (from then on, for good).
C11_Outcome ==
    /\ epc[1] = "done"
    /\ ~raised[1]
    /\ WellFormedFrame(frame[1])
    /\ LastTwo(FramePayload(frame[1])) = SW_USER_REJECTED
    /\ Count(sent[1], "LRlr") >= 1
C11_EndToEndFinalSigning == <>[]C11_Outcome
\* The device's 69 85 came after the sixth press-both and the engine returned it.
C11_Witness ==
    /\ cmd[1] = FinalSigningCommand
    /\ waited[1] = "signalled"
    /\ reply[1] = SW_USER_REJECTED
    /\ frame[1] = <<10, 2, 105, 133>>
    /\ Count(sent[1], "LRlr") = approval_attempts
    /\ Count(sent[1], "Rr") = screens_to_navigate
    /\ late[1] = 0

\* C12: connect() is idempotent and does not raise: on a connected client it
\* returns True and opens no socket; when the connection cannot be opened it
\* returns False, raises nothing and leaves the client not connected; this
\* after any sequence of connect, press and disconnect calls, in each of the
\* three classes.
C12_ConnectIdempotent ==
    lb.op = "connect" =>
        /\ ~lb.raised
        /\ lb.ret \in {"True", "False"}
        /\ lb.was => lb.ret = "True" /\ lb.opened = 0 /\ lb.connected
        /\ lb.ret = "True" <=> lb.connected
        /\ lb.ret = "False" => ~lb.was /\ lb.opened = 1 /\ lb.client = "unconnected"
\* connect() on a connected client that has sent a token: True, no new socket.
C12_Witness ==
    /\ lb.op = "connect"
    /\ lb.was
    /\ lb.ret = "True"
    /\ lb.sockets = 1
    /\ Len(lb.tokens) = 1

\* C13: a press returns a boolean that is true exactly when its token was sent
\* (connecting first when the client is not connected) and false, without
\* raising, when the connect or the send fails; the three classes agree.
C13_PressReturnsBoolean ==
    lb.op \in {"Ll", "Rr", "LRlr"} =>
        /\ ~lb.raised
        /\ lb.ret \in {"True", "False"}
        /\ lb.ret = "True" <=> lb.delivered
        /\ lb.delivered => lb.tokens[Len(lb.tokens)] = lb.op

\* The bytes a minimal base-128 varint of n takes, for n below 2^21.
VarintLength(n) == IF n < 128 THEN 1 ELSE IF n < 16384 THEN 2 ELSE 3

\* C14: encode emits the tag byte 0A, then the minimal base-128 varint of the
\* payload length (1 byte up to 127, 2 bytes for 128..16383, 3 bytes from
\* 16384), then the payload: output length = payload length + 1 +
\* varint-length(payload length).
C14_EncodeMinimalVarint ==
    codec.pc \in {"framed", "decoded"} =>
        LET n == Len(codec.payload)
            v == VarintAt(codec.frame, 2)
        IN  /\ codec.frame[1] = 10
            /\ v.val = n
            /\ v.len = VarintLength(n)
            /\ Len(codec.frame) = n + 1 + VarintLength(n)
            /\ SubSeq(codec.frame, 2 + v.len, Len(codec.frame)) = codec.payload
\* 16384 bytes: the length field is 80 80 01; 16383 bytes take FF 7F elsewhere.
C14_Witness ==
    /\ codec.pc = "framed"
    /\ Len(codec.payload) = 16384
    /\ SubSeq(codec.frame, 1, 4) = <<10, 128, 128, 1>>
    /\ Len(codec.frame) = 16388

\* decode as C15 describes it: the whole buffer when it is too short (two bytes
\* or fewer, or no complete length field) or does not start with 0A; else the
\* bytes after the varint length field, as many as the length says or as the
\* buffer holds.
SpecifiedDecode(data) ==
    IF Len(data) <= 2 \/ data[1] # 10 \/ VarintAt(data, 2).val < 0 THEN data
    ELSE LET v == VarintAt(data, 2)
             last == IF Len(data) >= 1 + v.len + v.val THEN 1 + v.len + v.val
                     ELSE Len(data)
         IN  SubSeq(data, 2 + v.len, last)

\* C15: decode never fails, returns the whole buffer when it does not start
\* with 0A or is too short, and otherwise reads the varint length that starts
\* at byte 1 (possibly several bytes) and returns the bytes that follow the
\* length field, clipped to what the buffer holds.
C15_DecodeReadsVarint ==
    codec.pc \in {"decoded", "decoded_buffer"} =>
        codec.decoded = SpecifiedDecode(codec.frame)

\* What belongs to one request: its signal, its result slot, its button client,
\* and where its engine, sender and presser are.
Own(r) == <<apdu_complete[r], apdu_result[r], btn[r], sent[r], epc[r], spc[r], ppc[r],
           pidx[r], reply[r], waited[r], calls[r]>>
\* The reply of an interactive flow, from the request's own sender and wait alone.
OwnReply(r) ==
    /\ waited[r] = "signalled" =>
           /\ spc[r] = "done"
           /\ apdu_result[r] \in SenderResults(r)
           /\ reply[r] = apdu_result[r]
    /\ waited[r] = "expired" => reply[r] = SW_USER_REJECTED
    /\ apdu_complete[r] => spc[r] = "done"
    /\ apdu_result[r] \in SenderResults(r) \cup {None}

\* C16: concurrent Exchange calls are independent: each request has its own
\* completion signal, result slot and button client; in every interleaving of
\* two requests a step of one request's engine, sender or presser leaves the
\* other request's signal, result and button client as they were, and each
\* reply is the one the request gets from its own sender and its own wait.
C16_ConcurrentIndependence ==
    [][\A r \in Req :
          /\ Own(r)' # Own(r) => \A q \in Req \ {r} : Own(q)' = Own(q)
          /\ OwnReply(r)']_vars
\* Both requests were in their interactive flows at once and each got the
\* answer the device gave its own sender.
C16_Witness ==
    /\ epc[1] = "done" /\ epc[2] = "done"
    /\ route[1] = "TX_SIGN_FINAL" /\ route[2] = "ADDRESS_REQUEST"
    /\ reply[1] = <<192, 144, 0>>
    /\ reply[2] = <<144, 0>>
    /\ Len(sent[1]) > 0 /\ Len(sent[2]) > 0
    /\ calls[1][1].status = "answered"

\* build_cli_args as C17 words it: the non-empty positional arguments, then a
\* flag and a value for every keyword whose value is not None; the flag is "--"
\* and the keyword, its underscores turned into dashes unless it is preserved.
RECURSIVE ClaimedFlagsAndValues(_)
ClaimedFlagsAndValues(kwargs) ==
    IF kwargs = <<>> THEN <<>>
    ELSE LET k == Head(kwargs)[1]
             v == Head(kwargs)[2]
         IN  (IF v = PyNone THEN <<>>
              ELSE << <<"-", "-">> \o (IF k \in PRESERVE_UNDERSCORE_FLAGS THEN k ELSE Dashed(k)),
                      PyToStr(v) >>)
             \o ClaimedFlagsAndValues(Tail(kwargs))
ClaimedCliArgs(args, kwargs) ==
    LET kept == SelectSeq(args, LAMBDA a : a # PyNone /\ a # PyStr(<<>>))
    IN  [i \in 1..Len(kept) |-> PyToStr(kept[i])] \o ClaimedFlagsAndValues(kwargs)
NoWhitespace(args, kwargs) ==
    /\ \A i \in 1..Len(args) : SplitLen(PyToStr(args[i])) <= 1
    /\ \A i \in 1..Len(kwargs) : SplitLen(PyToStr(kwargs[i][2])) <= 1
PlainKeywords(kwargs) ==
    \A i \in 1..Len(kwargs) : StripUnderscores(kwargs[i][1]) = kwargs[i][1]

\* C17: build_cli_args returns the non-empty positional arguments in order,
\* then for each keyword argument whose value is not None, in call order, a
\* flag and its value as strings (order_by stays --order_by, chain_id becomes
\* --chain-id); for arguments without white space safe=True and safe=False
\* give the same list.  Stated for keywords that neither begin nor end with an
\* underscore (those the code strips first).
C17_BuildCliArgs ==
    cli.pc = "both" /\ PlainKeywords(cli.kwargs) /\ NoWhitespace(cli.args, cli.kwargs) =>
        /\ cli.out = ClaimedCliArgs(cli.args, cli.kwargs)
        /\ cli.safe_out = cli.out

\* C18: in the final-signing flow the presser checks the completion signal
\* immediately before every single press (each navigation press-right, each
\* press-both, each corrective press): once a check has seen it set no press
\* follows, so at most one press, the one in flight when the signal was set,
\* is made after completion.
C18_CheckBeforeEveryPress ==
    \A r \in Req :
        route[r] \in {"TX_SIGN_FINAL", "ETHEREUM_AUTOMATION"} => late[r] <= 1

\* C19: in the interactive address flow the presser checks the completion
\* signal before each step (press right, press right, press both, the two
\* corrections): if the sender completes, with any status, before a step, that
\* step and all later presses are skipped; at most the press in flight is made
\* after completion.
C19_AddressPresserChecks ==
    \A r \in Req : route[r] = "ADDRESS_REQUEST" => late[r] <= 1

\* C20: in every interactive flow the engine's wait timeout is at least the
\* sender's device-call timeout: when the device answers the sender within the
\* sender's timeout, the engine's wait has not run out first (it returns the
\* answer, not 69 85 for an expired wait).
C20_WaitCoversSender ==
    \A r \in Req :
        waited[r] = "expired" =>
            \/ calls[r] = <<>>
            \/ calls[r][Len(calls[r])].status # "answered"

\* C21: the completion signal of a request is created unset when the
\* interactive flow starts; it is set once, by a step of that request's sender
\* and only when the sender's device call has finished (answered, failed or
\* timed out); it is never cleared; no step of the presser or of the engine
\* changes it.
C21_SignalSetOnce ==
    [][\A r \in Req :
          /\ (epc[r] # "wait" /\ epc'[r] = "wait") => ~apdu_complete'[r]
          /\ apdu_complete[r] => apdu_complete'[r]
          /\ (~apdu_complete[r] /\ apdu_complete'[r]) =>
                 /\ spc[r] = "stored" /\ spc'[r] = "done"
                 /\ calls[r][Len(calls[r])].status \in {"answered", "failed", "timeout"}
                 /\ ppc'[r] = ppc[r] /\ epc'[r] = epc[r]
          /\ spc[r] = "done" => spc'[r] = "done"]_vars
\* The signal was set after a device call that timed out, while the presser was
\* in its script and the engine in its wait.
C21_Witness ==
    /\ apdu_complete[1]
    /\ spc[1] = "done"
    /\ calls[1][Len(calls[1])].status = "timeout"
    /\ ppc[1] = "press_both"
    /\ epc[1] = "wait"

\* C22: the sender stores its result before it sets the completion signal, on
\* every path: in every reachable state where the signal is set the result
\* slot holds a reply that ends in a status word (two bytes at least), never
\* the initial None.
C22_ResultBeforeSignal ==
    \A r \in Req :
        apdu_complete[r] =>
            /\ apdu_result[r] # None
            /\ Len(apdu_result[r]) >= 2

\* C23: for an address request whose silent attempt does not succeed the device
\* receives exactly two calls, in order: the clone with P1 forced to 00, then,
\* only after that call has finished, the original command with all its bytes
\* as received; building the clone leaves the original command unchanged.
SilentFailed(r) ==
    /\ route[r] = "ADDRESS_REQUEST"
    /\ Len(calls[r]) >= 1
    /\ calls[r][1].status # "pending"
    /\ answer[r] = None \/ LastTwo(answer[r]) # SW_OK
C23_SilentThenOriginal ==
    \A r \in Req :
        route[r] = "ADDRESS_REQUEST" =>
            /\ IsGetAddress(cmd[r])
            /\ Len(calls[r]) \in {1, 2}
            /\ calls[r][1].data = Hex([cmd[r] EXCEPT ![3] = P1_SILENT])
            /\ Len(calls[r]) = 2 =>
                   /\ SilentFailed(r)
                   /\ calls[r][2].data = Hex(cmd[r])
            /\ SilentFailed(r) /\ spc[r] = "done" => Len(calls[r]) = 2
\* 55 04 01 00 05: the silent call 55 04 00 00 05 raised, then the sender posted
\* 55 04 01 00 05 and finished.
C23_Witness ==
    /\ Take4(cmd[1]) = <<85, 4, 1, 0>>
    /\ Len(cmd[1]) > 4
    /\ SilentFailed(1)
    /\ calls[1][1].status = "failed"
    /\ Len(calls[1]) = 2
    /\ calls[1][2].data = Hex(cmd[1])
    /\ calls[1][2].data # calls[1][1].data
    /\ spc[1] = "done"

\* C24: whichever way a presser run ends (connect failed, completion observed,
\* script exhausted), disconnect is executed at the end: the button client
\* finishes not connected and its socket closed.
C24_PresserDisconnects ==
    \A r \in Req :
        ppc[r] = "done" /\ route[r] \in {"ADDRESS_REQUEST", "TX_SIGN_FINAL"} =>
            /\ ~btn[r].connected
            /\ btn[r].sock = "closed"

\* C25: a failed button press never aborts the flow: after a press that failed
\* (send error, connection lost) the final-signing presser still goes through
\* every remaining step (it ends only on seeing the signal set or with all
\* approval attempts made) and disconnects, and the reply is still decided by
\* the sender's result and the engine's wait alone.
ConnectSucceeded(r) == btn[r].created /\ btn[r].sock # "unconnected"
C25_PressFailureContained ==
    \A r \in Req :
        route[r] = "TX_SIGN_FINAL" =>
            /\ ppc[r] = "done" /\ ConnectSucceeded(r) =>
                   /\ apdu_complete[r] \/ pidx[r] = approval_attempts
                   /\ btn[r].sock = "closed"
            /\ epc[r] = "done" =>
                   /\ ~raised[r]
                   /\ reply[r] = IF waited[r] = "signalled" /\ apdu_result[r] # <<>>
                                 THEN apdu_result[r] ELSE SW_USER_REJECTED
\* The endpoint dropped the connection after two presses; the presser went on
\* pressing (its counter reached 3, with two tokens delivered), saw the signal
\* set, disconnected, and the reply is the sender's c0 90 00.
C25_Witness ==
    /\ route[1] = "TX_SIGN_FINAL"
    /\ ppc[1] = "done"
    /\ pidx[1] = 3
    /\ sent[1] = <<"Rr", "Rr">>
    /\ btn[1].sock = "closed"
    /\ epc[1] = "done"
    /\ waited[1] = "signalled"
    /\ reply[1] = <<192, 144, 0>>

\* C26: sequencing of the final-signing script: every navigation press-right
\* is issued before the first press-both; once the approval attempts have begun
\* only press-both and the corrective press-left follow, never another
\* press-right; and the presses of each kind are bounded (the screens to
\* navigate, the approval attempts, two corrections).
NavigationBound(r) ==
    IF route[r] = "TX_SIGN_FINAL" THEN screens_to_navigate ELSE screen_delays
AttemptBound(r) ==
    IF route[r] = "TX_SIGN_FINAL" THEN approval_attempts ELSE ethereum_attempts
C26_NavigationBeforeApproval ==
    \A r \in Req :
        route[r] \in {"TX_SIGN_FINAL", "ETHEREUM_AUTOMATION"} =>
            /\ \A i, j \in 1..Len(sent[r]) :
                   i < j /\ sent[r][i] \in {"LRlr", "Ll"} => sent[r][j] # "Rr"
            /\ Count(sent[r], "Rr") <= NavigationBound(r)
            /\ Count(sent[r], "LRlr") <= AttemptBound(r)
            /\ Count(sent[r], "Ll") <= 2

\* C27: the button client of a presser belongs to its one request: it is
\* created by that request's presser, only that presser sends through it (and
\* only while it is connected), only that presser changes it, and once
\* disconnect has closed it no token is sent through it and it is not
\* reconnected.
C27_ButtonClientOwned ==
    [][\A r \in Req :
          /\ sent'[r] # sent[r] =>
                 /\ ppc'[r] # ppc[r]
                 /\ \A q \in Req \ {r} : ppc'[q] = ppc[q]
                 /\ btn[r].connected /\ btn[r].sock = "open"
          /\ btn'[r] # btn[r] => ppc'[r] # ppc[r]
          /\ ~btn[r].created /\ btn'[r].created => ppc[r] = "start"
          /\ btn[r].sock = "closed" => btn'[r] = btn[r] /\ sent'[r] = sent[r]]_vars
\* Request 2's presser has disconnected its client after its three presses;
\* request 1's presser, on its own client, is at an approval attempt.
C27_Witness ==
    /\ btn[2].sock = "closed"
    /\ Len(sent[2]) = 3
    /\ ppc[1] = "press_both"
    /\ btn[1].sock = "open"
    /\ Len(sent[1]) >= screens_to_navigate

\* C28: every request terminates: Exchange in the end returns a reply (on the
\* signal or on its wait running out); where the interactive flow was started,
\* the sender in the end has set the signal and the presser has ended.
Terminated(r) ==
    /\ epc[r] = "done"
    /\ ~raised[r]
    /\ reply[r] # None
    /\ spc[r] \in {"none", "done"}
    /\ ppc[r] \in {"none", "done"}
    /\ spc[r] = "done" => apdu_complete[r] /\ waited[r] \in {"signalled", "expired"}
C28_EveryRequestTerminates == <>[]Terminated(1)
\* The engine's wait ran out, and the sender, whose call timed out after that,
\* has set the signal and the presser has ended.
C28_Witness ==
    /\ Terminated(1)
    /\ waited[1] = "expired"
    /\ spc[1] = "done"
    /\ apdu_result[1] = SW_TIMEOUT
    /\ ppc[1] = "done"
    /\ Len(sent[1]) > 0

\* C29: the bridge never answers a command on its own: for every command, of
\* any length and with any leading bytes, Exchange has made at least one device
\* call, carrying the received command (or, for an address request, its silent
\* clone), before it returns a reply.  Stated for the calls whose wait did not
\* run out.
C29_NeverAnswersAlone ==
    \A r \in Req :
        epc[r] = "done" /\ waited[r] # "expired" =>
            /\ Len(calls[r]) >= 1
            /\ calls[r][1].status # "pending"
            /\ calls[r][1].data =
                   Hex(IF IsGetAddress(cmd[r]) THEN [cmd[r] EXCEPT ![3] = P1_SILENT] ELSE cmd[r])

\* C30: a presser does not outlive its request: once Exchange has returned the
\* reply of an interactive request no further button press of that request is
\* made.  Stated for the returns that followed the sender's completion.
C30_PresserEndsWithRequest ==
    [][\A r \in Req :
          epc[r] = "done" /\ waited[r] = "signalled" =>
              /\ sent'[r] = sent[r]
              /\ late'[r] = late[r]]_vars

====
